---------------------------- MODULE Spec2Model ----------------------------
(***************************************************************************)
(* Model of the vscript lexer (src/vscript/src/main.cpp).                  *)
(*                                                                         *)
(* A line is a sequence of characters, a character a one-character string. *)
(* One call of Lexer::ParseLine is modelled as Call, then one Iterate per  *)
(* pass through the body of its while loop, then Return.  main's getline   *)
(* loop is what calls it, once per line of the file.                       *)
(*                                                                         *)
(* uint32_t values (the cursor) are held as their 32-bit pattern read in   *)
(* two's complement, so that 0 - 1 is the pattern of 4294967295, written   *)
(* here -1: Inc32 and Dec32 wrap exactly as unsigned arithmetic does.      *)
(***************************************************************************)
EXTENDS Integers, Sequences, FiniteSets, TLC

VARIABLES
    m_Tokens,     \* Lexer::m_Tokens
    m_Filename,   \* Lexer::m_Filename
    m_Row,        \* Lexer::m_Row
    pc,           \* "idle": outside ParseLine; "scan": at the while test
    cursor,       \* ParseLine's local cursor
    lines,        \* every line handed to ParseLine so far, the current one last
    starts,       \* starts[i]: m_Tokens.size() when the i-th call began
    out,          \* what Expected wrote to std::cout, one entry per call of it
    bytesRead,    \* bytes main's getline has taken from the stream
    readIdx,      \* indices i of the accesses line[i] of the last loop pass
    decAt         \* cursor values at which the last loop pass ran cursor--

vars == <<m_Tokens, m_Filename, m_Row, pc, cursor, lines, starts, out,
          bytesRead, readIdx, decAt>>

---------------------------------------------------------------------------
(* Bounds of the model *)

\* The file main reads has at most this many bytes, newlines included.
MaxBytes == 5

\* A call is followed for at most Len(line) + ExtraIters loop passes.  The
\* cursor at the while test is one of Len(line) values and the pass is a
\* function of it, so a call that makes more than Len(line) passes repeats a
\* cursor value and never ends.
ExtraIters == 1

---------------------------------------------------------------------------
(* Characters *)

NUL == "NUL"      \* the value of line[line.size()]

Digits == {"0", "1", "2", "3", "4", "5", "6", "7", "8", "9"}

Letters == {"a", "b", "c", "d", "e", "f", "g", "h", "i", "j", "k", "l", "m",
            "n", "o", "p", "q", "r", "s", "t", "u", "v", "w", "x", "y", "z"}

IsSpace(c) == c = " "
IsDigit(c) == c \in Digits
IsAlnum(c) == c \in Digits \cup Letters

\* The characters the generated lines are made of.
Alphabet == {" ", "{", "-", ">", "\"", "1", "f", "n", "_"}

\* Lines scanned besides the generated ones.
SampleLines ==
    { <<"r","e","t","u","r","n">>, <<"f","o","o">>, <<"f","o","o","_","1">>,
      <<"f","n","x">>, <<"1","2","a">>, <<"1","2","3">>,
      <<"\"","h","e","l","l","o","\"">>, <<"\"","h","e","l","l","o">>,
      <<"a","-","b">>, <<"-",">">>, <<"!">>, <<".">>,
      <<"}">>, <<"(">>, <<")">>, <<";">>, <<":">>,
      <<"+">>, <<"*">>, <<"/">>, <<"=">> }

---------------------------------------------------------------------------
(* uint32_t arithmetic *)

INT32_MAX == 2147483647
INT32_MIN == -2147483647 - 1

Inc32(x) == IF x = INT32_MAX THEN INT32_MIN ELSE x + 1
Dec32(x) == IF x = INT32_MIN THEN INT32_MAX ELSE x - 1

\* cursor < line.size(): a pattern with the top bit set is 2^31 or more.
Valid(c, line) == c >= 0 /\ c < Len(line)

\* line[i] of a const std::string: the character, or charT() at i = size().
CharAt(line, i) ==
    IF i >= 0 /\ i < Len(line) THEN line[i + 1] ELSE NUL

\* std::string(line.data() + start, n)
Substr(line, start, n) == [i \in 1..n |-> CharAt(line, start + i - 1)]


---------------------------------------------------------------------------
(* Positions, tokens, the keyword table *)

Position(file, col, row) == [Filename |-> file, Column |-> col, Row |-> row]

Token(type, pos, value) == [Type |-> type, Pos |-> pos, Value |-> value]

s_Keywords == { <<"f","n">>, <<"r","e","t","u","r","n">> }

IsKeywordM(value) ==
    \E k \in s_Keywords :
        Len(value) >= Len(k) /\ SubSeq(value, 1, Len(k)) = k
IsKeyword(value) == value \in s_Keywords

---------------------------------------------------------------------------
(* The scanning loops *)

RECURSIVE ScanDigitsM(_, _)
ScanDigitsM(line, c) ==
    IF Valid(c, line) /\ IsAlnum(CharAt(line, c))
    THEN ScanDigitsM(line, Inc32(c))
    ELSE c
\* while (valid() && std::isdigit(line[cursor])) cursor++;
RECURSIVE ScanDigits(_, _)
ScanDigits(line, c) ==
    IF Valid(c, line) /\ IsDigit(CharAt(line, c))
    THEN ScanDigits(line, Inc32(c))
    ELSE c

RECURSIVE ScanAlnumM(_, _)
ScanAlnumM(line, c) ==
    IF Valid(c, line) /\ IsAlnum(CharAt(line, c))
    THEN ScanAlnumM(line, Inc32(c))
    ELSE c
\* while (valid() && std::isalnum(line[cursor]) || line[cursor] == '_') cursor++;
RECURSIVE ScanAlnum(_, _)
ScanAlnum(line, c) ==
    IF (Valid(c, line) /\ IsAlnum(CharAt(line, c))) \/ CharAt(line, c) = "_"
    THEN ScanAlnum(line, Inc32(c))
    ELSE c

---------------------------------------------------------------------------
(* One pass through the body of ParseLine's while loop, as the code's      *)
(* sequence of if statements over a record s of its locals:                *)
(*   cursor, first, pos, token as in the code;                             *)
(*   diag:  the positions Expected was called with;                        *)
(*   reads: the indices i of the accesses line[i];                         *)
(*   decs:  the cursor values at which cursor-- ran.                       *)

\* auto pos = currentPos(); char first = line[cursor]; Token token = {...};
EnterBody(line, file, row, c) ==
    [cursor |-> c,
     first  |-> CharAt(line, c),
     pos    |-> Position(file, c, row),
     token  |-> Token("None", Position(file, c, row), << >>),
     diag   |-> << >>,
     reads  |-> {c},
     decs   |-> {}]

SkipSpaceM(line, file, row, s) ==
    IF IsSpace(s.first)
    THEN LET c == Inc32(Inc32(s.cursor))
             p == Position(file, c, row)
         IN  [s EXCEPT !.cursor = c,
                       !.first  = CharAt(line, c),
                       !.pos    = p,
                       !.token  = [@ EXCEPT !.Pos = p],
                       !.reads  = @ \cup {c}]
    ELSE s
\* if (std::isspace(first)) { first = line[++cursor]; ... }
SkipSpace(line, file, row, s) ==
    IF IsSpace(s.first)
    THEN LET c == Inc32(s.cursor)
             p == Position(file, c, row)
         IN  [s EXCEPT !.cursor = c,
                       !.first  = CharAt(line, c),
                       !.pos    = p,
                       !.token  = [@ EXCEPT !.Pos = p],
                       !.reads  = @ \cup {c}]
    ELSE s

PunctuationM(s) ==
    LET one == << s.first >>
        s1 == CASE s.first = "{" -> [s EXCEPT !.token = Token("OCurly", s.pos, one)]
                [] s.first = "}" -> [s EXCEPT !.token = Token("CCurly", s.pos, one)]
                [] s.first = "(" -> [s EXCEPT !.token = Token("OParen", s.pos, one)]
                [] s.first = ")" -> [s EXCEPT !.token = Token("CParen", s.pos, one)]
                [] OTHER -> s
    IN  CASE s1.first = ";" -> [s1 EXCEPT !.token = Token("Colon", s1.pos, one)]
          [] s1.first = ":" -> [s1 EXCEPT !.token = Token("Semicolon", s1.pos, one)]
          [] OTHER -> s1
\* The two if / else-if chains over { } ( ) and ; :
Punctuation(s) ==
    LET one == << s.first >>
        s1 == CASE s.first = "{" -> [s EXCEPT !.token = Token("OCurly", s.pos, one)]
                [] s.first = "}" -> [s EXCEPT !.token = Token("CCurly", s.pos, one)]
                [] s.first = "(" -> [s EXCEPT !.token = Token("OParen", s.pos, one)]
                [] s.first = ")" -> [s EXCEPT !.token = Token("CParen", s.pos, one)]
                [] OTHER -> s
    IN  CASE s1.first = ";" -> [s1 EXCEPT !.token = Token("Semicolon", s1.pos, one)]
          [] s1.first = ":" -> [s1 EXCEPT !.token = Token("Colon", s1.pos, one)]
          [] OTHER -> s1

ArrowAheadM(line, c) == CharAt(line, c) = "-"
\* if (line[cursor] == '>'), cursor being one past the '-'
ArrowAhead(line, c) == CharAt(line, c) = ">"

\* else if (first == '-') { start = cursor; cursor++; ... }
MinusOrArrow(line, s) ==
    LET start == s.cursor
        c     == Inc32(s.cursor)
    IN  [s EXCEPT !.cursor = c,
                  !.reads  = @ \cup {c},
                  !.token  = IF ArrowAhead(line, c)
                             THEN Token("Arrow", s.pos, Substr(line, start, 2))
                             ELSE Token("Minus", s.pos, << s.first >>)]

\* The if / else-if chain over + - * / =
Operators(line, s) ==
    LET one == << s.first >>
    IN  CASE s.first = "+" -> [s EXCEPT !.token = Token("Plus", s.pos, one)]
          [] s.first = "-" -> MinusOrArrow(line, s)
          [] s.first = "*" -> [s EXCEPT !.token = Token("Multiply", s.pos, one)]
          [] s.first = "/" -> [s EXCEPT !.token = Token("Divide", s.pos, one)]
          [] s.first = "=" -> [s EXCEPT !.token = Token("Equals", s.pos, one)]
          [] OTHER -> s

\* if (first == '"') { ... }: the loop starts at the opening quote itself.
StringLiteral(line, file, row, s) ==
    IF s.first = "\""
    THEN LET start == s.cursor
             e     == ScanAlnum(line, start)
         IN  [s EXCEPT !.cursor = Dec32(e),
                       !.reads  = @ \cup (start..e),
                       !.decs   = @ \cup {e},
                       !.diag   = IF CharAt(line, e) # "\""
                                  THEN Append(@, Position(file, e, row))
                                  ELSE @,
                       !.token  = Token("String", s.pos, Substr(line, start, e - start))]
    ELSE s

\* if (std::isdigit(first)) { ... }
NumberLiteral(line, s) ==
    LET start == s.cursor
        e     == ScanDigits(line, start)
    IN  [s EXCEPT !.cursor = Dec32(e),
                  !.reads  = @ \cup (start..e),
                  !.decs   = @ \cup {e},
                  !.token  = Token("Number", s.pos, Substr(line, start, e - start))]

\* else if (std::isalnum(first)) { ... }
IdentOrKeyword(line, s) ==
    LET start == s.cursor
        e     == ScanAlnum(line, start)
        value == Substr(line, start, e - start)
    IN  [s EXCEPT !.cursor = Dec32(e),
                  !.reads  = @ \cup (start..e),
                  !.decs   = @ \cup {e},
                  !.token  = IF IsKeyword(value)
                             THEN Token("Keyword", s.pos, value)
                             ELSE Token("Ident", s.pos, value)]

Literals(line, s) ==
    IF IsDigit(s.first) THEN NumberLiteral(line, s)
    ELSE IF IsAlnum(s.first) THEN IdentOrKeyword(line, s)
    ELSE s

\* The locals of ParseLine after the body of the loop, before the push_back.
Body(line, file, row, c) ==
    Literals(line,
      StringLiteral(line, file, row,
        Operators(line,
          Punctuation(
            SkipSpace(line, file, row,
              EnterBody(line, file, row, c))))))

---------------------------------------------------------------------------
(* The state machine *)

\* The line the current (or the last) call of ParseLine scans.
line == IF lines = << >> THEN << >> ELSE lines[Len(lines)]

\* m_Tokens.size() when the current (or the last) call began.
base == IF starts = << >> THEN 0 ELSE starts[Len(starts)]

\* Loop passes of the current (or the last) call: each pushes one token.
Iters == Len(m_Tokens) - base

\* The tokens the current (or the last) call has appended.
Appended == SubSeq(m_Tokens, base + 1, Len(m_Tokens))

Init ==
    /\ m_Tokens = << >>
    /\ m_Filename = "main.vs"
    /\ m_Row = 0
    /\ pc = "idle"
    /\ cursor = 0
    /\ lines = << >>
    /\ starts = << >>
    /\ out = << >>
    /\ bytesRead = 0
    /\ readIdx = {}
    /\ decAt = {}

CallM(l) ==
    /\ pc = "idle"
    /\ bytesRead < MaxBytes
    /\ l \in SampleLines \/ bytesRead + Len(l) + 1 <= MaxBytes
    /\ bytesRead' = bytesRead + Len(l) + 1
    /\ lines' = Append(lines, l)
    /\ starts' = Append(starts, Len(m_Tokens))
    /\ cursor' = cursor
    /\ pc' = "scan"
    /\ readIdx' = {}
    /\ decAt' = {}
    /\ UNCHANGED <<m_Tokens, m_Filename, m_Row, out>>
\* main: while (std::getline(stream, line)) lexer.ParseLine(line);
\* ParseLine: uint32_t cursor = 0;
Call(l) ==
    /\ pc = "idle"
    /\ bytesRead < MaxBytes
    /\ l \in SampleLines \/ bytesRead + Len(l) + 1 <= MaxBytes
    /\ bytesRead' = bytesRead + Len(l) + 1
    /\ lines' = Append(lines, l)
    /\ starts' = Append(starts, Len(m_Tokens))
    /\ cursor' = 0
    /\ pc' = "scan"
    /\ readIdx' = {}
    /\ decAt' = {}
    /\ UNCHANGED <<m_Tokens, m_Filename, m_Row, out>>

IterateM ==
    /\ pc = "scan"
    /\ Valid(cursor, line)
    /\ Iters < Len(line) + ExtraIters
    /\ LET s == Body(line, m_Filename, m_Row, cursor)
       IN  /\ m_Tokens' = IF s.token.Type = "None" /\ Iters > 0
                          THEN [m_Tokens EXCEPT ![Len(m_Tokens)] = s.token]
                          ELSE Append(m_Tokens, s.token)
           /\ cursor' = Inc32(s.cursor)
           /\ out' = out \o s.diag
           /\ readIdx' = s.reads
           /\ decAt' = s.decs
    /\ UNCHANGED <<m_Filename, m_Row, pc, lines, starts, bytesRead>>
\* One pass of while (cursor < line.size()) { ...; push_back; cursor++; }
Iterate ==
    /\ pc = "scan"
    /\ Valid(cursor, line)
    /\ Iters < Len(line) + ExtraIters
    /\ LET s == Body(line, m_Filename, m_Row, cursor)
       IN  /\ m_Tokens' = Append(m_Tokens, s.token)
           /\ cursor' = Inc32(s.cursor)
           /\ out' = out \o s.diag
           /\ readIdx' = s.reads
           /\ decAt' = s.decs
    /\ UNCHANGED <<m_Filename, m_Row, pc, lines, starts, bytesRead>>

RowAfterM(row) == row
\* m_Row++;
RowAfter(row) == Inc32(row)

\* The while test fails: m_Row++ and ParseLine returns.
Return ==
    /\ pc = "scan"
    /\ ~Valid(cursor, line)
    /\ m_Row' = RowAfter(m_Row)
    /\ pc' = "idle"
    /\ UNCHANGED <<m_Tokens, m_Filename, cursor, lines, starts, out,
                   bytesRead, readIdx, decAt>>

\* The lines main may read next: any line over Alphabet that fits the file.
Generated ==
    UNION { [1..k -> Alphabet] : k \in 0..(MaxBytes - bytesRead - 1) }

Next ==
    \/ \E l \in Generated \cup SampleLines : Call(l)
    \/ Iterate
    \/ Return

Spec == Init /\ [][Next]_vars

---------------------------------------------------------------------------
(* Vocabulary of the properties *)

\* The row of the current (or the last) call.
CallRow == Len(lines) - 1

\* Indices into m_Tokens of the tokens the i-th call appended.
TokensOfCall(i) ==
    (starts[i] + 1) .. (IF i < Len(starts) THEN starts[i + 1] ELSE Len(m_Tokens))

\* The Expected calls made while scanning row r.
DiagsOfRow(r) == SelectSeq(out, LAMBDA p : p.Row = r)

IsWordChar(c) == c \in Digits \cup Letters \cup {"_"}

\* An opening quote, a body of word characters, a closing quote.
IsBalancedString(l) ==
    /\ Len(l) >= 2
    /\ l[1] = "\""
    /\ l[Len(l)] = "\""
    /\ \A i \in 2..(Len(l) - 1) : IsWordChar(l[i])

\* An opening quote and a body of word characters up to the end of the line.
IsOpenString(l) ==
    /\ Len(l) >= 1
    /\ l[1] = "\""
    /\ \A i \in 2..Len(l) : IsWordChar(l[i])

\* A loop pass is being taken in this step.
Pass == pc = "scan" /\ Valid(cursor, line) /\ m_Tokens' # m_Tokens

\* The column of the character a pass starting at the cursor classifies: the
\* cursor, or one past it when the cursor is on a whitespace character.
ClassCol == IF line[cursor + 1] = " " THEN cursor + 1 ELSE cursor

\* Length of the longest run of characters of class S starting at column c.
RunLen(l, c, S) ==
    CHOOSE n \in 0..(Len(l) - c) :
        /\ \A i \in 1..n : l[c + i] \in S
        /\ c + n = Len(l) \/ l[c + n + 1] \notin S

RunAt(l, c, S) == SubSeq(l, c + 1, c + RunLen(l, c, S))

\* s is a prefix of t.
IsPrefix(s, t) == Len(s) <= Len(t) /\ SubSeq(t, 1, Len(s)) = s

---------------------------------------------------------------------------
(* C1..C10 *)

\* C1: every call of ParseLine terminates, whatever the line (lines with a
\* double quote included).  A pass is a function of the cursor, which at the
\* while test is one of Len(line) values, so the call terminates exactly when
\* it makes at most Len(line) passes.
C1_ParseLineTerminates == pc = "scan" => Iters <= Len(line)

\* C2: scanning a balanced string line (quote, word characters, quote)
\* appends exactly one token, a String whose Value is the body without the
\* quotes, and calls Expected not at all.
C2_BalancedStringOneToken ==
    IsBalancedString(line) =>
        LET want == Token("String", Position(m_Filename, 0, CallRow),
                          SubSeq(line, 2, Len(line) - 1))
        IN  /\ IsPrefix(Appended, << want >>)
            /\ pc = "idle" => Appended = << want >>
            /\ DiagsOfRow(CallRow) = << >>

\* C3: scanning a line made of a quote and word characters up to its end
\* calls Expected once, at the column just after the body, appends a
\* String token for the partial lexeme, and the call completes.
C3_UnterminatedStringReported ==
    (IsOpenString(line) /\ Iters >= 1) =>
        /\ DiagsOfRow(CallRow) = << Position(m_Filename, Len(line), CallRow) >>
        /\ Appended = << Token("String", Position(m_Filename, 0, CallRow),
                               SubSeq(line, 2, Len(line))) >>

\* C4: a character no rule classifies is skipped without a token, so no
\* token of the sequence has type None.
C4_NoNoneToken == \A k \in 1..Len(m_Tokens) : m_Tokens[k].Type # "None"

\* C5: whitespace produces no token: no token of a call sits on a whitespace
\* character or past the end of the line, and a line of whitespace only
\* appends nothing.
C5_WhitespaceNoToken ==
    /\ \A k \in 1..Len(Appended) :
          /\ Appended[k].Pos.Column < Len(line)
          /\ line[Appended[k].Pos.Column + 1] # " "
    /\ (\A i \in 1..Len(line) : line[i] = " ") => Appended = << >>

\* C6: after a token scanning resumes one past the last character of its
\* lexeme (column + 1 after a one-character token), no character is left
\* unscanned.
C6_ResumesAfterLexeme ==
    (pc = "scan" /\ Iters >= 1) =>
        LET t == m_Tokens[Len(m_Tokens)]
        IN  t.Type \notin {"None", "String"} =>
                cursor = t.Pos.Column + Len(t.Value)

\* C7: every completed call adds exactly 1 to the row counter, whatever it
\* appended: after k completed calls m_Row = k, and every token of the i-th
\* call (from 0) has Pos.Row = i.
C7_RowPerCall ==
    /\ m_Row = (IF pc = "idle" THEN Len(lines) ELSE Len(lines) - 1)
    /\ \A i \in 1..Len(lines) :
          \A k \in TokensOfCall(i) : m_Tokens[k].Pos.Row = i - 1

C7_Witness ==
    /\ pc = "idle"
    /\ lines = << << >>, <<"f">>, <<"n">> >>
    /\ m_Row = 3
    /\ Len(m_Tokens) = 2
    /\ m_Tokens[1].Pos.Row = 1
    /\ m_Tokens[2].Pos.Row = 2

\* C8: a pass that classifies a '-' appends exactly one token at the column
\* of the '-': Arrow with Value "->" when the next character is '>', both
\* characters being consumed; otherwise (another character, or the end of
\* the line) Minus with Value "-".
C8_MinusOrArrow ==
    [][ (Pass /\ ClassCol < Len(line) /\ line[ClassCol + 1] = "-") =>
          LET c == ClassCol
              p == Position(m_Filename, c, m_Row)
          IN  IF c + 1 < Len(line) /\ line[c + 2] = ">"
              THEN /\ m_Tokens' = Append(m_Tokens, Token("Arrow", p, <<"-", ">">>))
                   /\ cursor' = c + 2
              ELSE m_Tokens' = Append(m_Tokens, Token("Minus", p, <<"-">>))
      ]_vars

C8_Witness ==
    /\ pc = "idle"
    /\ lines = << <<"-", ">">>, <<"-">> >>
    /\ m_Tokens = << Token("Arrow", Position(m_Filename, 0, 0), <<"-", ">">>),
                     Token("Minus", Position(m_Filename, 0, 1), <<"-">>) >>

\* C9: a pass that classifies a letter appends one token whose Value is the
\* maximal run of letters, digits and underscores starting at that letter,
\* of type Keyword if and only if the run is exactly fn or return, else of
\* type Ident.
C9_IdentOrKeyword ==
    [][ (Pass /\ ClassCol < Len(line) /\ line[ClassCol + 1] \in Letters) =>
          LET c   == ClassCol
              run == RunAt(line, c, Digits \cup Letters \cup {"_"})
              kw  == run = <<"f","n">> \/ run = <<"r","e","t","u","r","n">>
          IN  m_Tokens' = Append(m_Tokens,
                  Token(IF kw THEN "Keyword" ELSE "Ident",
                        Position(m_Filename, c, m_Row), run))
      ]_vars

C9_Witness ==
    /\ pc = "idle"
    /\ lines = << <<"f","n","_">>, <<"r","e","t","u","r","n">> >>
    /\ m_Tokens = << Token("Ident", Position(m_Filename, 0, 0), <<"f","n","_">>),
                     Token("Keyword", Position(m_Filename, 0, 1),
                           <<"r","e","t","u","r","n">>) >>

\* C10: a pass that classifies a digit appends a Number token whose Value is
\* the maximal run of digits, and scanning resumes at the column after the
\* run, so a letter that follows starts its own token there.
C10_NumberMaximalDigits ==
    [][ (Pass /\ ClassCol < Len(line) /\ line[ClassCol + 1] \in Digits) =>
          LET c   == ClassCol
              run == RunAt(line, c, Digits)
          IN  /\ m_Tokens' = Append(m_Tokens,
                      Token("Number", Position(m_Filename, c, m_Row), run))
              /\ cursor' = c + Len(run)
      ]_vars

C10_Witness ==
    /\ pc = "idle"
    /\ line = <<"1","2","a">>
    /\ Appended = << Token("Number", Position(m_Filename, 0, CallRow), <<"1","2">>),
                     Token("Ident", Position(m_Filename, 2, CallRow), <<"a">>) >>

---------------------------------------------------------------------------
(* C11..C18 *)

\* The token type of each of the ten one-character lexemes.
TypeOfChar(c) ==
    CASE c = "{" -> "OCurly"    [] c = "}" -> "CCurly"
      [] c = "(" -> "OParen"    [] c = ")" -> "CParen"
      [] c = ";" -> "Semicolon" [] c = ":" -> "Colon"
      [] c = "+" -> "Plus"      [] c = "*" -> "Multiply"
      [] c = "/" -> "Divide"    [] c = "=" -> "Equals"

OneCharLexemes == {"{", "}", "(", ")", ";", ":", "+", "*", "/", "="}

\* C11: scanning a line that is exactly one of { } ( ) ; : + * / = appends
\* exactly one token, of the type of that character, with that character as
\* its Value, at column 0.
C11_OneCharLine ==
    (Len(line) = 1 /\ line[1] \in OneCharLexemes) =>
        LET want == Token(TypeOfChar(line[1]),
                          Position(m_Filename, 0, CallRow), << line[1] >>)
        IN  /\ IsPrefix(Appended, << want >>)
            /\ pc = "idle" => Appended = << want >>

C11_Witness ==
    /\ pc = "idle"
    /\ lines = << <<";">>, <<"{">> >>
    /\ m_Tokens = << Token("Semicolon", Position(m_Filename, 0, 0), <<";">>),
                     Token("OCurly", Position(m_Filename, 0, 1), <<"{">>) >>

\* Position p comes before position q in the source: by row, then by column.
Precedes(p, q) == p.Row < q.Row \/ (p.Row = q.Row /\ p.Column < q.Column)

\* C12: the token sequence is in source order: the position of a token
\* strictly precedes that of every later token.
C12_SourceOrder ==
    \A i, j \in 1..Len(m_Tokens) :
        i < j => Precedes(m_Tokens[i].Pos, m_Tokens[j].Pos)

\* C13: the position of every token is a valid index: its Column is less
\* than the length of the line it was scanned from and its Row is the index
\* of that line.
C13_ValidPosition ==
    \A i \in 1..Len(lines) :
        \A k \in TokensOfCall(i) :
            /\ m_Tokens[k].Pos.Column < Len(lines[i])
            /\ m_Tokens[k].Pos.Row = i - 1

\* The tokens of ParseLine(l) on a lexer of its own whose row counter is
\* row, from cursor c on; at most fuel passes are followed.
RECURSIVE ScanAlone(_, _, _, _, _)
ScanAlone(l, file, row, c, fuel) ==
    IF ~Valid(c, l) \/ fuel = 0
    THEN << >>
    ELSE LET s == Body(l, file, row, c)
         IN  << s.token >> \o ScanAlone(l, file, row, Inc32(s.cursor), fuel - 1)

\* The tokens of the first n lines, each scanned alone at its own row.
RECURSIVE AloneUpTo(_)
AloneUpTo(n) ==
    IF n = 0
    THEN << >>
    ELSE AloneUpTo(n - 1)
           \o ScanAlone(lines[n], m_Filename, n - 1, 0, Len(lines[n]))

\* C14: scanning is compositional per line: after the calls for L1..Ln have
\* returned, the token sequence is the concatenation, in order, of the
\* tokens of each Li scanned alone on a lexer whose row counter is i-1; a
\* call in progress has left the tokens of the earlier lines as they were.
C14_PerLineComposition ==
    /\ pc = "idle" => m_Tokens = AloneUpTo(Len(lines))
    /\ pc = "scan" => SubSeq(m_Tokens, 1, base) = AloneUpTo(Len(lines) - 1)

C14_Witness ==
    /\ pc = "idle"
    /\ lines = << <<"f">>, <<"-", ">">> >>
    /\ Len(m_Tokens) = 2
    /\ m_Tokens[2] = Token("Arrow", Position(m_Filename, 0, 1), <<"-", ">">>)

\* C15: ParseLine only appends: every step leaves the token sequence it
\* found as a prefix of the one it leaves, and the source-unit name of the
\* lexer and of the tokens is unchanged.
C15_AppendOnly ==
    [][ /\ IsPrefix(m_Tokens, m_Tokens')
        /\ m_Filename' = m_Filename
        /\ \A k \in 1..Len(m_Tokens') : m_Tokens'[k].Pos.Filename = m_Filename
      ]_vars

C15_Witness ==
    /\ pc = "scan"
    /\ lines = << <<"f">>, <<"1", "{">> >>
    /\ Len(m_Tokens) = 3
    /\ m_Tokens[1].Type = "Ident"
    /\ m_Tokens[3].Type = "OCurly"

\* C16: every token of a type other than String has a non-empty Value, which
\* is the substring of its line that begins at the token's column.
C16_ValueIsSubstring ==
    \A i \in 1..Len(lines) :
        \A k \in TokensOfCall(i) :
            LET t == m_Tokens[k]
            IN  t.Type # "String" =>
                    /\ Len(t.Value) >= 1
                    /\ t.Pos.Column + Len(t.Value) <= Len(lines[i])
                    /\ t.Value = SubSeq(lines[i], t.Pos.Column + 1,
                                        t.Pos.Column + Len(t.Value))

\* C17: every access line[i] of a pass has i <= line.size(): the whitespace
\* skip, the look-ahead after '-' and the scanning loops never read past the
\* terminating position of the string.
C17_ReadsWithinLine == \A i \in readIdx : 0 <= i /\ i <= Len(line)

C17_Witness ==
    /\ line = <<" ", "f", "_">>
    /\ Len(Appended) = 1
    /\ readIdx = {0, 1, 2, 3}

\* C18: the cursor never wraps: every cursor-- runs with cursor >= 1, and a
\* pass leaves the cursor strictly greater than it found it.
C18_CursorNeverWraps ==
    [][ Pass => /\ \A d \in decAt' : d >= 1
                /\ cursor' > cursor
      ]_vars

=============================================================================
